---- MODULE Spec2Model ----
(***************************************************************************)
(* A model of the search resolvers (src/node/resolvers/search/index.ts):   *)
(* the query format classifier, the facet segment filter, the request URL  *)
(* composer, the in-flight key and the query operations that use them.     *)
(*                                                                         *)
(* A JavaScript string is a sequence of one-character strings, so that     *)
(* split, join, includes and concatenation are computed, not assumed.      *)
(* Every other JavaScript value is a tagged record.                        *)
(***************************************************************************)
EXTENDS Integers, Sequences, FiniteSets, TLC

VARIABLES
  pc,        \* position of the operation under way
  fArgs,     \* filterSpecificationFilters: the argument
  fOnce,     \* filterSpecificationFilters: its result
  fTwice,    \* filterSpecificationFilters: the result of applying it to fOnce
  sArgs,     \* productSearchUrl: the SearchArgs it is given
  segment,   \* the session's segment data of the context (undefined when absent)
  url,       \* productSearchUrl: the URL it returns
  lArgs,     \* isLegacySearchFormat: the query and the argument bag holding map
  isLegacy,  \* isLegacySearchFormat: the value it returns
  reqA,      \* inflightKey: a request configuration
  reqB,      \* inflightKey: another request configuration
  keyA,      \* inflightKey: the key of reqA
  keyB,      \* inflightKey: the key of reqB
  op,        \* the query operation requested: "products", "productSearch",
             \* "facets" or "searchMetadata"
  opArgs,    \* its arguments (SearchArgs, FacetsArgs or SearchMetadataArgs)
  locale,    \* the locale of the request and the locale of the tenant
  info,      \* the names of the fields the request selects (GraphQL resolve info)
  calls,     \* the calls made to the external services so far, in order
  translatedArgs,  \* args with the translated query
  searchArgs,      \* the arguments given to search.products or getSearchMetaData
  backendUrl,      \* the URL requested of the search backend
  compatibilityArgs,  \* facets: the query and map chosen after classification
  facetsQuery,     \* facets: the string given to search.facets
  outcome    \* how the operation ended: an error thrown or a result returned

filterVars == <<fArgs, fOnce, fTwice>>
urlVars == <<sArgs, url>>
legacyVars == <<lArgs, isLegacy>>
keyVars == <<reqA, reqB, keyA, keyB>>
resolverVars ==
  <<op, opArgs, locale, info, calls, translatedArgs, searchArgs, backendUrl,
    compatibilityArgs, facetsQuery, outcome>>
vars == <<pc, fArgs, fOnce, fTwice, sArgs, segment, url, lArgs, isLegacy,
          reqA, reqB, keyA, keyB, op, opArgs, locale, info, calls, translatedArgs,
          searchArgs, backendUrl, compatibilityArgs, facetsQuery, outcome>>

(***************************************************************************)
(* JavaScript values                                                       *)
(***************************************************************************)
Undefined == [t |-> "undefined"]
Null == [t |-> "null"]
Num(n) == [t |-> "number", v |-> n]
Str(s) == [t |-> "string", v |-> s]
Bool(b) == [t |-> "boolean", v |-> b]
Arr(a) == [t |-> "array", v |-> a]

\* x == null (loose equality with null: true of null and undefined only)
IsNullish(x) == x.t \in {"undefined", "null"}

\* the truthiness of a value, as `if (x)`, `x && y`, `!x` read it
Truthy(x) ==
  CASE x.t = "undefined" -> FALSE
    [] x.t = "null" -> FALSE
    [] x.t = "boolean" -> x.v
    [] x.t = "number" -> x.v # 0
    [] x.t = "string" -> x.v # <<>>
    [] OTHER -> TRUE

\* a destructuring default `{ f = d }`: d replaces undefined, and nothing else
Default(x, d) == IF x.t = "undefined" THEN d ELSE x

(***************************************************************************)
(* Strings                                                                 *)
(***************************************************************************)
RECURSIVE Concat(_)
\* the concatenation of a sequence of strings
Concat(ss) == IF ss = <<>> THEN <<>> ELSE Head(ss) \o Concat(Tail(ss))

RECURSIVE Join(_, _)
\* Array.prototype.join: the elements with sep between each two
Join(ss, sep) ==
  IF ss = <<>> THEN <<>>
  ELSE IF Len(ss) = 1 THEN ss[1]
  ELSE ss[1] \o sep \o Join(Tail(ss), sep)

RECURSIVE SplitFrom(_, _, _)
\* the pieces of s, after the piece cur read so far, cut at each character c
SplitFrom(s, c, cur) ==
  IF s = <<>> THEN <<cur>>
  ELSE IF Head(s) = c THEN <<cur>> \o SplitFrom(Tail(s), c, <<>>)
  ELSE SplitFrom(Tail(s), c, Append(cur, Head(s)))

\* String.prototype.split on a one-character separator ("" gives [""])
Split(s, c) == SplitFrom(s, c, <<>>)

\* whether sub occurs in s at position i
OccursAt(s, sub, i) ==
  /\ i + Len(sub) - 1 <= Len(s)
  /\ \A k \in 1..Len(sub) : s[i + k - 1] = sub[k]

\* String.prototype.includes
Includes(s, sub) == \E i \in 1..(Len(s) + 1) : OccursAt(s, sub, i)

StartsWith(s, sub) == OccursAt(s, sub, 1)

EndsWith(s, sub) == Len(sub) <= Len(s) /\ OccursAt(s, sub, Len(s) - Len(sub) + 1)

(***************************************************************************)
(* ramda                                                                   *)
(***************************************************************************)
Min(a, b) == IF a <= b THEN a ELSE b

\* zip: the positional pairs, as many as the shorter list has
Zip(xs, ys) == [i \in 1..Min(Len(xs), Len(ys)) |-> <<xs[i], ys[i]>>]

\* tail: all but the first element ([] for [])
RTail(xs) == IF xs = <<>> THEN <<>> ELSE Tail(xs)

\* pluck(k): the k-th component of each element (k counted from 1 here)
Pluck(k, xs) == [i \in 1..Len(xs) |-> xs[i][k]]

(***************************************************************************)
(* Facet Segment Filter                                                    *)
(***************************************************************************)
SLASH == "/"
COMMA == ","
TagC == <<"c">>
TagFt == <<"f", "t">>

\* a slip: the full-text tag forgotten
IsCategoryOnly(pair) == pair[2] = TagC

\* the filter's predicate on a (segment, tag) pair
IsCategoryOrFullText(pair) == pair[2] = TagC \/ pair[2] = TagFt

\* a slip: the first pair filtered like the others
RelevantArgsNoAnchor(queryAndMap) == SelectSeq(queryAndMap, IsCategoryOrFullText)

\* [head(queryAndMap), ...tail(queryAndMap).filter(...)]; SelectSeq is
\* Array.prototype.filter
RelevantArgs(queryAndMap) ==
  <<Head(queryAndMap)>> \o SelectSeq(RTail(queryAndMap), IsCategoryOrFullText)

\* filterSpecificationFilters({query, map, ...rest}); args.query and args.map are
\* strings (Required<FacetsArgs>), the other fields are carried over
filterSpecificationFilters(args) ==
  LET queryArray == Split(args.query, SLASH)
      mapArray == Split(args.map, COMMA)
      relevantArgs == RelevantArgs(Zip(queryArray, mapArray))
  IN  [args EXCEPT !.map = Join(Pluck(2, relevantArgs), <<COMMA>>),
                   !.query = Join(Pluck(1, relevantArgs), <<SLASH>>)]

(***************************************************************************)
(* Inputs of the filter                                                    *)
(***************************************************************************)
MaxPairs == 3

Segments == {<<>>, <<"a">>, <<"b">>}
Tags == {<<>>, TagC, TagFt, <<"x">>}

\* the lists of 1..n elements of S
ListsUpTo(S, n) == UNION {[1..k -> S] : k \in 1..n}

FilterQueries ==
  {Join(l, <<SLASH>>) : l \in ListsUpTo(Segments, MaxPairs)}
    \cup {<<"a", "/", "b", "/", "c", "/", "d">>}
FilterMaps ==
  {Join(l, <<COMMA>>) : l \in ListsUpTo(Tags, MaxPairs)}
    \cup {<<"x", ",", "c", ",", "y", ",", "f", "t">>}

FilterInputs ==
  [query : FilterQueries, map : FilterMaps, behavior : {"Static", "Dynamic"},
   hideUnavailableItems : {FALSE}]

Idle == [t |-> "idle"]

\* the variables of the components a specification does not exercise stay idle
IdleFilter == fArgs = Idle /\ fOnce = Idle /\ fTwice = Idle
IdleUrl == sArgs = Idle /\ url = Idle
IdleLegacy == lArgs = Idle /\ isLegacy = Idle
IdleKey == reqA = Idle /\ reqB = Idle /\ keyA = Idle /\ keyB = Idle
IdleResolvers ==
  /\ op = Idle /\ opArgs = Idle /\ locale = Idle /\ info = Idle /\ calls = <<>>
  /\ translatedArgs = Idle /\ searchArgs = Idle /\ backendUrl = Idle /\ outcome = Idle
  /\ compatibilityArgs = Idle /\ facetsQuery = Idle

InitFilter ==
  /\ pc = "start"
  /\ fArgs \in FilterInputs
  /\ fOnce = Idle
  /\ fTwice = Idle
  /\ IdleUrl /\ segment = Undefined /\ IdleLegacy /\ IdleKey /\ IdleResolvers

\* the filter applied to the argument
ApplyFilter ==
  /\ pc = "start"
  /\ fOnce' = filterSpecificationFilters(fArgs)
  /\ pc' = "once"
  /\ UNCHANGED <<fArgs, fTwice, urlVars, segment, legacyVars, keyVars, resolverVars>>

\* the filter applied to its own result
ApplyFilterAgain ==
  /\ pc = "once"
  /\ fTwice' = filterSpecificationFilters(fOnce)
  /\ pc' = "twice"
  /\ UNCHANGED <<fArgs, fOnce, urlVars, segment, legacyVars, keyVars, resolverVars>>

NextFilter == ApplyFilter \/ ApplyFilterAgain

SpecFilter == InitFilter /\ [][NextFilter]_vars

(***************************************************************************)
(* Conversions to string                                                   *)
(***************************************************************************)
Digit(d) == <<"0", "1", "2", "3", "4", "5", "6", "7", "8", "9">>[d + 1]

RECURSIVE NatToString(_)
\* the decimal digits of a natural number
NatToString(n) ==
  IF n < 10 THEN <<Digit(n)>> ELSE NatToString(n \div 10) \o <<Digit(n % 10)>>

\* Number.prototype.toString of an integer
NumberToString(n) == IF n < 0 THEN <<"-">> \o NatToString(-n) ELSE NatToString(n)

RECURSIVE ToStr(_)
\* the string a template literal or `+=` makes of a value; an array is its
\* elements joined by "," (null and undefined elements as "")
ToStr(x) ==
  CASE x.t = "string" -> x.v
    [] x.t = "number" -> NumberToString(x.v)
    [] x.t = "boolean" -> IF x.v THEN <<"t", "r", "u", "e">> ELSE <<"f", "a", "l", "s", "e">>
    [] x.t = "undefined" -> <<"u", "n", "d", "e", "f", "i", "n", "e", "d">>
    [] x.t = "null" -> <<"n", "u", "l", "l">>
    [] x.t = "array" ->
         Join([i \in 1..Len(x.v) |->
                 IF IsNullish(x.v[i]) THEN <<>> ELSE ToStr(x.v[i])], <<COMMA>>)

(***************************************************************************)
(* URI encoding                                                            *)
(***************************************************************************)
\* the characters encodeURIComponent escapes, among those the model uses
Escapes == (" " :> <<"%", "2", "0">>) @@ ("/" :> <<"%", "2", "F">>)
             @@ ("%" :> <<"%", "2", "5">>) @@ ("&" :> <<"%", "2", "6">>)
             @@ ("?" :> <<"%", "3", "F">>) @@ ("=" :> <<"%", "3", "D">>)
             @@ ("," :> <<"%", "2", "C">>) @@ (":" :> <<"%", "3", "A">>)

RECURSIVE encodeURIComponent(_)
encodeURIComponent(s) ==
  IF s = <<>> THEN <<>>
  ELSE (IF Head(s) \in DOMAIN Escapes THEN Escapes[Head(s)] ELSE <<Head(s)>>)
         \o encodeURIComponent(Tail(s))

RECURSIVE decodeURIComponent(_)
\* each %XX escape sequence replaced by its character (the model's inputs hold
\* no malformed escape, on which the function throws)
decodeURIComponent(s) ==
  IF s = <<>> THEN <<>>
  ELSE IF Head(s) = "%" /\ Len(s) >= 3
            /\ \E c \in DOMAIN Escapes : Escapes[c] = SubSeq(s, 1, 3)
       THEN <<CHOOSE c \in DOMAIN Escapes : Escapes[c] = SubSeq(s, 1, 3)>>
              \o decodeURIComponent(SubSeq(s, 4, Len(s)))
       ELSE <<Head(s)>> \o decodeURIComponent(Tail(s))

RECURSIVE TrimStart(_)
TrimStart(s) == IF s # <<>> /\ Head(s) = " " THEN TrimStart(Tail(s)) ELSE s

RECURSIVE TrimEnd(_)
TrimEnd(s) ==
  IF s # <<>> /\ s[Len(s)] = " " THEN TrimEnd(SubSeq(s, 1, Len(s) - 1)) ELSE s

\* String.prototype.trim
Trim(s) == TrimEnd(TrimStart(s))

\* searchEncodeURI(account) of ./utils, which the sources do not include: the
\* composer's contract names no step after decode, trim, encode
searchEncodeURI(s) == s

(***************************************************************************)
(* Request URL Composer                                                    *)
(***************************************************************************)
SimulationSkip == Str(<<"s", "k", "i", "p">>)
SimulationDefault == Str(<<"d", "e", "f", "a", "u", "l", "t">>)

Obj(channel) == [t |-> "object", channel |-> channel]

\* (segmentData && segmentData.channel.toString()) || ''
SessionChannel(segmentData) ==
  IF Truthy(segmentData) /\ Truthy(Str(ToStr(segmentData.channel)))
  THEN Str(ToStr(segmentData.channel))
  ELSE Str(<<>>)

\* a slip: the session's channel used only when no salesChannel is given
ResolvedSalesChannelExplicitFirst(args, segmentData) ==
  IF Truthy(Default(args.salesChannel, Str(<<>>)))
  THEN Default(args.salesChannel, Str(<<>>))
  ELSE IF Truthy(Default(args.hideUnavailableItems, Bool(FALSE)))
       THEN SessionChannel(segmentData)
       ELSE Str(<<>>)

\* the salesChannel productSearchUrl uses: the argument (default ''), replaced by
\* the session's channel when hideUnavailableItems is set
ResolvedSalesChannel(args, segmentData) ==
  IF Truthy(Default(args.hideUnavailableItems, Bool(FALSE)))
  THEN SessionChannel(segmentData)
  ELSE Default(args.salesChannel, Str(<<>>))

\* `/pub/products/search/${sanitizedQuery}?`
BasePath(args) ==
  LET query == Default(args.query, Str(<<>>))
      sanitizedQuery ==
        searchEncodeURI(encodeURIComponent(Trim(decodeURIComponent(
          IF Truthy(query) THEN ToStr(query) ELSE <<>>))))
  IN  <<"/", "p", "u", "b", "/", "p", "r", "o", "d", "u", "c", "t", "s", "/", "s", "e", "a", "r", "c", "h", "/">> \o sanitizedQuery \o <<"?">>

\* a slip: the category clause appended whatever the query
CategoryClauseAnyQuery(args) ==
  LET category == Default(args.category, Str(<<>>))
  IN  IF Truthy(category) THEN <<"&", "f", "q", "=", "C", ":", "/">> \o ToStr(category) \o <<"/">> ELSE <<>>

\* if (category && !query) url += `&fq=C:/${category}/`
CategoryClause(args) ==
  LET query == Default(args.query, Str(<<>>))
      category == Default(args.category, Str(<<>>))
  IN  IF Truthy(category) /\ ~Truthy(query)
      THEN <<"&", "f", "q", "=", "C", ":", "/">> \o ToStr(category) \o <<"/">>
      ELSE <<>>

\* if (specificationFilters && specificationFilters.length > 0)
\*   url += specificationFilters.map(filter => `&fq=${filter}`)
\* the array that map returns is added to a string, hence converted by ToStr
SpecificationFiltersClause(args) ==
  LET specificationFilters == args.specificationFilters
  IN  IF Truthy(specificationFilters) /\ Len(specificationFilters.v) > 0
      THEN ToStr(Arr([i \in 1..Len(specificationFilters.v) |->
                           Str(<<"&", "f", "q", "=">> \o ToStr(specificationFilters.v[i]))]))
      ELSE <<>>

\* if (priceRange) url += `&fq=P:[${priceRange}]`
PriceRangeClause(args) ==
  LET priceRange == Default(args.priceRange, Str(<<>>))
  IN  IF Truthy(priceRange) THEN <<"&", "f", "q", "=", "P", ":", "[">> \o ToStr(priceRange) \o <<"]">> ELSE <<>>

\* if (collection) url += `&fq=productClusterIds:${collection}`
CollectionClause(args) ==
  LET collection == Default(args.collection, Str(<<>>))
  IN  IF Truthy(collection) THEN <<"&", "f", "q", "=", "p", "r", "o", "d", "u", "c", "t", "C", "l", "u", "s", "t", "e", "r", "I", "d", "s", ":">> \o ToStr(collection) ELSE <<>>

\* if (salesChannel) url += `&fq=isAvailablePerSalesChannel_${salesChannel}:1`
SalesChannelClause(args, segmentData) ==
  LET salesChannel == ResolvedSalesChannel(args, segmentData)
  IN  IF Truthy(salesChannel)
      THEN <<"&", "f", "q", "=", "i", "s", "A", "v", "a", "i", "l", "a", "b", "l", "e", "P", "e", "r", "S", "a", "l", "e", "s", "C", "h", "a", "n", "n", "e", "l", "_">> \o ToStr(salesChannel) \o <<":", "1">>
      ELSE <<>>

\* if (orderBy) url += `&O=${orderBy}`
OrderByClause(args) ==
  LET orderBy == Default(args.orderBy, Str(<<>>))
  IN  IF Truthy(orderBy) THEN <<"&", "O", "=">> \o ToStr(orderBy) ELSE <<>>

\* if (map) url += `&map=${map}`
MapClause(args) ==
  LET map == Default(args.map, Str(<<>>))
  IN  IF Truthy(map) THEN <<"&", "m", "a", "p", "=">> \o ToStr(map) ELSE <<>>

\* a slip: the lower bound compared with 0
FromClauseAboveZero(args) ==
  LET from == Default(args.from, Num(0))
  IN  IF ~IsNullish(from) /\ from.v > 0 THEN <<"&", "_", "f", "r", "o", "m", "=">> \o ToStr(from) ELSE <<>>

\* if (from != null && from > -1) url += `&_from=${from}`, from = 0 by default
FromClause(args) ==
  LET from == Default(args.from, Num(0))
  IN  IF ~IsNullish(from) /\ from.v > -1 THEN <<"&", "_", "f", "r", "o", "m", "=">> \o ToStr(from) ELSE <<>>

\* if (to != null && to > -1) url += `&_to=${to}`, to = 9 by default
ToClause(args) ==
  LET to == Default(args.to, Num(9))
  IN  IF ~IsNullish(to) /\ to.v > -1 THEN <<"&", "_", "t", "o", "=">> \o ToStr(to) ELSE <<>>

\* if (simulationBehavior === SimulationBehavior.SKIP) url += `&simulation=false`
SimulationClause(args) ==
  IF Default(args.simulationBehavior, SimulationDefault) = SimulationSkip
  THEN <<"&", "s", "i", "m", "u", "l", "a", "t", "i", "o", "n", "=", "f", "a", "l", "s", "e">> ELSE <<>>

\* a slip: the map clause appended before the orderBy clause
productSearchUrlMapFirst(args, segmentData) ==
  BasePath(args)
    \o CategoryClause(args)
    \o SpecificationFiltersClause(args)
    \o PriceRangeClause(args)
    \o CollectionClause(args)
    \o SalesChannelClause(args, segmentData)
    \o MapClause(args)
    \o OrderByClause(args)
    \o FromClause(args)
    \o ToClause(args)
    \o SimulationClause(args)

\* SearchClient.productSearchUrl; segmentData is this.context.segment
productSearchUrl(args, segmentData) ==
  BasePath(args)
    \o CategoryClause(args)
    \o SpecificationFiltersClause(args)
    \o PriceRangeClause(args)
    \o CollectionClause(args)
    \o SalesChannelClause(args, segmentData)
    \o OrderByClause(args)
    \o MapClause(args)
    \o FromClause(args)
    \o ToClause(args)
    \o SimulationClause(args)

(***************************************************************************)
(* Inputs of the composer                                                  *)
(***************************************************************************)
MaxFilters == 2

Shoes == <<"s", "h", "o", "e", "s">>

\* the i-th specification filter of a request
FilterValue(i) == <<"b", ":", Digit(i)>>

SpecificationFilterLists ==
  {Undefined} \cup {Arr([i \in 1..n |-> Str(FilterValue(i))]) : n \in 0..MaxFilters}

SearchInputs ==
  [query : {Str(<<>>), Str(Shoes), Str(<<" ", "a", " ", "b">>)},
   category : {Undefined, Str(Shoes)},
   specificationFilters : SpecificationFilterLists,
   priceRange : {Undefined, Str(<<"1", " ", "T", "O", " ", "5">>)},
   collection : {Undefined, Str(<<"7">>)},
   salesChannel : {Undefined, Str(<<"1">>)},
   orderBy : {Undefined, Str(<<"O", "r", "d", "e", "r", "B", "y", "P", "r", "i", "c", "e", "A", "S", "C">>)},
   from : {Undefined, Null, Num(-1), Num(0)},
   to : {Undefined, Null, Num(-1), Num(9)},
   map : {Undefined, Str(<<"c">>)},
   hideUnavailableItems : {Undefined, Bool(TRUE)},
   simulationBehavior : {Undefined, SimulationSkip}]

SessionSegments == {Undefined, Obj(Str(<<"2">>))}

InitUrl ==
  /\ pc = "start"
  /\ sArgs \in SearchInputs
  /\ segment \in SessionSegments
  /\ url = Idle
  /\ IdleFilter /\ IdleLegacy /\ IdleKey /\ IdleResolvers

\* productSearchUrl called with the arguments, in the context's session
BuildUrl ==
  /\ pc = "start"
  /\ url' = productSearchUrl(sArgs, segment)
  /\ pc' = "built"
  /\ UNCHANGED <<sArgs, segment, filterVars, legacyVars, keyVars, resolverVars>>

NextUrl == BuildUrl

SpecUrl == InitUrl /\ [][NextUrl]_vars

(***************************************************************************)
(* Query Format Classifier                                                 *)
(***************************************************************************)
SPEC_FILTER == <<"s", "p", "e", "c", "i", "f", "i", "c", "a", "t", "i", "o", "n", "F", "i", "l", "t", "e", "r">>
MAP_VALUES_SEP == COMMA

\* a slip: the specification-filter marker not looked for
isLegacySearchFormatNoMarker(query, queryMap, pathSegments) ==
  IF ~Truthy(queryMap.map)
  THEN queryMap.map
  ELSE Bool(Len(Split(queryMap.map.v, MAP_VALUES_SEP)) = Len(pathSegments))

\* isLegacySearchFormat: the value of
\*   query.includes(SPEC_FILTER) ||
\*     (queryMap.map && queryMap.map.split(MAP_VALUES_SEP).length === pathSegments.length)
\* which is true, false, or the falsy map itself (undefined, null or '')
isLegacySearchFormat(query, queryMap, pathSegments) ==
  IF Includes(query, SPEC_FILTER)
  THEN Bool(TRUE)
  ELSE IF ~Truthy(queryMap.map)
       THEN queryMap.map
       ELSE Bool(Len(Split(queryMap.map.v, MAP_VALUES_SEP)) = Len(pathSegments))

\* queries that hold the specification-filter marker
MarkerQueries ==
  {SPEC_FILTER \o <<"_", "1">>, <<"a", "/">> \o SPEC_FILTER \o <<"_", "1", "/", "b">>}

LegacyInputs ==
  [query : FilterQueries \cup MarkerQueries,
   map : {Undefined} \cup {Str(m) : m \in FilterMaps}]

InitLegacy ==
  /\ pc = "start"
  /\ lArgs \in LegacyInputs
  /\ isLegacy = Idle
  /\ IdleFilter /\ IdleUrl /\ segment = Undefined /\ IdleKey /\ IdleResolvers

\* the classifier called as the operations call it: on the query, the argument
\* bag and query.split('/')
Classify ==
  /\ pc = "start"
  /\ isLegacy' = isLegacySearchFormat(lArgs.query, lArgs, Split(lArgs.query, SLASH))
  /\ pc' = "classified"
  /\ UNCHANGED <<lArgs, filterVars, urlVars, segment, keyVars, resolverVars>>

NextLegacy == Classify

SpecLegacy == InitLegacy /\ [][NextLegacy]_vars

(***************************************************************************)
(* In-flight Deduplication Keyer                                           *)
(***************************************************************************)
\* qs.stringify of one key of params, arrayFormat 'repeat': "key=value" for a
\* string or a number, "key=" for null, one "key=element" per element of an
\* array, and nothing for undefined or for an empty array
StringifyPair(key, value) ==
  CASE value.t = "undefined" -> <<>>
    [] value.t = "null" -> <<encodeURIComponent(key) \o <<"=">>>>
    [] value.t = "array" ->
         [i \in 1..Len(value.v) |->
            encodeURIComponent(key) \o <<"=">> \o encodeURIComponent(ToStr(value.v[i]))]
    [] OTHER -> <<encodeURIComponent(key) \o <<"=">> \o encodeURIComponent(ToStr(value))>>

RECURSIVE StringifyPairs(_)
\* the "key=value" parts of the keys of params, in the order of its keys
StringifyPairs(pairs) ==
  IF pairs = <<>> THEN <<>>
  ELSE StringifyPair(Head(pairs)[1], Head(pairs)[2]) \o StringifyPairs(Tail(pairs))

\* stringify(params, { arrayFormat: 'repeat', addQueryPrefix: true }); params is
\* undefined or an object, given as the sequence of its (key, value) entries
Stringify(params) ==
  LET parts == IF params.t = "undefined" THEN <<>> ELSE StringifyPairs(params.v)
  IN  IF parts = <<>> THEN <<>> ELSE <<"?">> \o Join(parts, <<"&">>)

\* a slip: the segment token left out of the key
inflightKeyNoToken(config) ==
  config.baseURL \o config.url \o Stringify(config.params)

\* inflightKey({ baseURL, url, params, headers }); segmentToken is
\* headers['x-vtex-segment'], undefined when the request carries none
inflightKey(config) ==
  config.baseURL \o config.url \o Stringify(config.params)
    \o <<"&", "s", "e", "g", "m", "e", "n", "t", "T", "o", "k", "e", "n", "=">> \o ToStr(config.segmentToken)

Params(entries) == [t |-> "object", v |-> entries]

MaxParamValues == 2

\* the values of the sc parameter: strings, a number, arrays of 1..MaxParamValues
ParamValues ==
  {Str(<<"1">>), Str(<<"2">>), Num(1), Undefined}
    \cup {Arr([i \in 1..n |-> Str(<<Digit(i)>>)]) : n \in 1..MaxParamValues}

KeyRequests ==
  [baseURL : {<<"h">>, <<"h", "/", "a">>},
   url : {<<"/", "b">>, <<"/", "a", "/", "b">>},
   params : {Undefined, Params(<<>>)} \cup {Params(<<<<<<"s", "c">>, x>>>>) : x \in ParamValues},
   segmentToken : {Undefined, Str(<<"t">>), Str(<<"u">>), Str(<<"u", "n", "d", "e", "f", "i", "n", "e", "d">>)}]

InitKey ==
  /\ pc = "start"
  /\ reqA \in KeyRequests
  /\ reqB \in KeyRequests
  /\ keyA = Idle
  /\ keyB = Idle
  /\ IdleFilter /\ IdleUrl /\ segment = Undefined /\ IdleLegacy /\ IdleResolvers

\* the transport asks for the key of each of two requests
ComputeKeys ==
  /\ pc = "start"
  /\ keyA' = inflightKey(reqA)
  /\ keyB' = inflightKey(reqB)
  /\ pc' = "keyed"
  /\ UNCHANGED <<reqA, reqB, filterVars, urlVars, segment, legacyVars, resolverVars>>

NextKey == ComputeKeys

SpecKey == InitKey /\ [][NextKey]_vars

(***************************************************************************)
(* The query operations products and productSearch                         *)
(***************************************************************************)
MaxTo == 2500

InvalidCharacters == {"?", "&", "[", "]", "="}

\* queryTerm == null || test(/[?&[\]=]/, queryTerm)
InvalidQueryTerm(queryTerm) ==
  IF IsNullish(queryTerm)
  THEN TRUE
  ELSE \E i \in 1..Len(queryTerm.v) : queryTerm.v[i] \in InvalidCharacters

\* a slip: the bound of 'to' excluded
ToTooLargeFrom2500(a) == Truthy(a.to) /\ a.to.v >= MaxTo

\* opArgs.to && opArgs.to > 2500
ToTooLarge(a) == Truthy(a.to) /\ a.to.v > MaxTo

\* an error of kind UserInputError; its message is a string of the program
UserInputError(message) == [kind |-> "UserInputError", message |-> message]

\* `The maximum value allowed for the 'to' argument is 2500`
MaximumToMessage ==
  <<"T", "h", "e", " ", "m", "a", "x", "i", "m", "u", "m", " ", "v", "a", "l", "u", "e", " ", "a", "l", "l", "o", "w", "e", "d", " ", "f", "o", "r", " ", "t", "h", "e", " ", "'", "t", "o", "'", " ", "a", "r", "g", "u", "m", "e", "n", "t", " ", "i", "s", " ",
    "2", "5", "0", "0">>

\* 'No query or map provided'
NoQueryOrMapMessage == <<"N", "o", " ", "q", "u", "e", "r", "y", " ", "o", "r", " ", "m", "a", "p", " ", "p", "r", "o", "v", "i", "d", "e", "d">>

metadataResolverNames == {"titleTag", "metaTagDescription"}

\* some selected field is one of metadataResolverNames; the selections are [] when
\* info holds none
isQueryingMetadata(selectedFields) ==
  \E i \in DOMAIN selectedFields : selectedFields[i] \in metadataResolverNames

\* the calls of Promise.all([search.products(compatibilityArgs, true),
\* isQueryingMetadata(info) ? getSearchMetaData(_, compatibilityArgs, ctx) : emptyTitleTag])
ProductsAndMetadataCalls(selectedFields) ==
  IF isQueryingMetadata(selectedFields)
  THEN <<"search.products", "getSearchMetaData">>
  ELSE <<"search.products">>

\* the status of the answer of the search backend
Statuses == {200, 404}
Returned == [kind |-> "returned"]
\* an error of an external service, which no operation catches
TransportError == [kind |-> "TransportError"]

\* from && from !== to, of translateToStoreDefaultLanguage
NeedsTranslation(l) == Truthy(l.from) /\ l.from # l.to

\* opArgs.query || '', the term productSearch has translated
SearchTerm(a) == IF Truthy(a.query) THEN a.query ELSE Str(<<>>)

\* what messagesGraphQL.translateV2 may answer for a term
Translations(term) == {term, <<"s", "a", "p", "a", "t", "o", "s">>}

\* toCompatibilityArgs of ./newURLs, which the sources do not include: the legacy
\* query/map pair stored or derived for the query, empty when none is found, in
\* place of the query and map of the arguments
CompatibilityResults(a) ==
  {[a EXCEPT !.query = Str(r[1]), !.map = Str(r[2])] :
     r \in {<<Shoes, <<"f", "t">>>>, <<<<"a", "/", "b">>, <<"c", ",", "c">>>>, <<<<>>, <<>>>>}}

NoSearchArgs ==
  [query |-> Undefined, category |-> Undefined, specificationFilters |-> Undefined,
   priceRange |-> Undefined, collection |-> Undefined, salesChannel |-> Undefined,
   orderBy |-> Undefined, from |-> Undefined, to |-> Undefined, map |-> Undefined,
   hideUnavailableItems |-> Undefined, simulationBehavior |-> Undefined]

OperationQueries ==
  {Undefined, Null, Str(<<>>), Str(Shoes), Str(<<"a", "/", "b">>), Str(SPEC_FILTER \o <<"_", "1">>),
   Str(<<"a", "?", "b">>), Str(<<"a", "&", "b">>), Str(<<"a", "[", "b">>), Str(<<"a", "]", "b">>), Str(<<"a", "=", "b">>)}

OperationArgs ==
  {[NoSearchArgs EXCEPT !.query = q, !.to = t, !.map = m] :
     q \in OperationQueries,
     t \in {Undefined, Null, Num(0), Num(9), Num(MaxTo - 1), Num(MaxTo), Num(MaxTo + 1),
            Num(MaxTo + 2)},
     m \in {Undefined, Str(<<"c">>), Str(<<"c", ",", "c">>)}}

Locales ==
  {[from |-> Undefined, to |-> Str(<<"e", "n">>)],
   [from |-> Str(<<"e", "n">>), to |-> Str(<<"e", "n">>)],
   [from |-> Str(<<"p", "t">>), to |-> Str(<<"e", "n">>)]}

\* an exception of the language, as reading a property of undefined throws
TypeError == [kind |-> "TypeError"]

\* what translateV2(...).then(head) may answer for the query of facets, a term that
\* is not a string coming back as it went
FacetsTranslations(query) ==
  IF query.t = "string" THEN {Str(term) : term \in Translations(query.v)} ELSE {query}

\* !query || !map
hasFacetsBadArgs(a) == ~Truthy(a.query) \/ ~Truthy(a.map)

\* toCompatibilityArgs of ./newURLs as facets sees it: a pair, an empty pair, or a
\* partial pair with no map, when the path cannot be resolved
FacetsCompatibilityResults(a) ==
  CompatibilityResults(a) \cup {[a EXCEPT !.query = Str(Shoes), !.map = Undefined]}

\* {query: compatibilityArgs.query, map: compatibilityArgs.map, ...args}: a key
\* that args holds replaces the one written before the spread; an argument the
\* caller has not given is no key of args
StaticFilterArgs(args, compat) ==
  [args EXCEPT !.query = IF args.query = Undefined THEN compat.query ELSE args.query,
               !.map = IF args.map = Undefined THEN compat.map ELSE args.map]

\* the query and map facets destructures as filteredQuery and filteredMap
FilteredArgs(args, compat) ==
  IF args.behavior = Str(<<"S", "t", "a", "t", "i", "c">>)
  THEN LET a == StaticFilterArgs(args, compat)
           r == filterSpecificationFilters([a EXCEPT !.query = a.query.v, !.map = a.map.v])
       IN  [query |-> Str(r.query), map |-> Str(r.map)]
  ELSE [query |-> args.query, map |-> args.map]

\* hideUnavailableItems ? `&fq=isAvailablePerSalesChannel_${salesChannel}:1` : ''
UnavailableString(args, segmentData) ==
  IF Truthy(args.hideUnavailableItems)
  THEN <<"&", "f", "q", "=", "i", "s", "A", "v", "a", "i", "l", "a", "b", "l", "e", "P", "e", "r", "S", "a", "l", "e", "s", "C", "h", "a", "n", "n", "e", "l", "_">> \o SessionChannel(segmentData).v \o <<":", "1">>
  ELSE <<>>

\* `${filteredQuery}?map=${filteredMap}${unavailableString}`
FacetsString(filtered, args, segmentData) ==
  ToStr(filtered.query) \o <<"?", "m", "a", "p", "=">> \o ToStr(filtered.map)
    \o UnavailableString(args, segmentData)

FacetsQueries ==
  {Undefined, Str(<<>>), Str(Shoes), Str(<<"a", "/", "b">>), Str(SPEC_FILTER \o <<"_", "1">>)}

FacetsMaps ==
  {Undefined, Str(<<>>), Str(<<"c">>), Str(<<"c", ",", "c">>), Str(<<"c", ",", "x">>)}

FacetsOperationArgs ==
  [query : FacetsQueries, map : FacetsMaps,
   behavior : {Undefined, Str(<<"S", "t", "a", "t", "i", "c">>), Str(<<"D", "y", "n", "a", "m", "i", "c">>)},
   hideUnavailableItems : {Undefined, Bool(TRUE)}]

MetadataOperationArgs ==
  [query : OperationQueries, map : {Undefined, Str(<<"c">>), Str(<<"c", ",", "c">>)}]

\* the fields a productSearch request may select
Selections == {<<>>, <<"products">>, <<"titleTag">>, <<"products", "metaTagDescription">>}

\* only productSearch reads info
Init ==
  /\ pc = "start"
  /\ \/ op = "products" /\ opArgs \in OperationArgs /\ info = <<>>
     \/ op = "productSearch" /\ opArgs \in OperationArgs /\ info \in Selections
     \/ op = "facets" /\ opArgs \in FacetsOperationArgs /\ info = <<>>
     \/ op = "searchMetadata" /\ opArgs \in MetadataOperationArgs /\ info = <<>>
  /\ locale \in Locales
  /\ segment \in SessionSegments
  /\ calls = <<>>
  /\ translatedArgs = Idle
  /\ searchArgs = Idle
  /\ backendUrl = Idle
  /\ compatibilityArgs = Idle
  /\ facetsQuery = Idle
  /\ outcome = Idle
  /\ IdleFilter /\ IdleUrl /\ IdleLegacy /\ IdleKey

requestVars ==
  <<filterVars, urlVars, legacyVars, keyVars, segment, op, opArgs, locale, info>>
otherVars == <<requestVars, compatibilityArgs, facetsQuery>>

\* products, productSearch and searchMetadata: the query term is missing or holds a
\* reserved character
RejectQuery ==
  /\ pc = "start"
  /\ op \in {"products", "productSearch", "searchMetadata"}
  /\ InvalidQueryTerm(opArgs.query)
  /\ outcome' = UserInputError(<<"T", "h", "e", " ", "q", "u", "e", "r", "y", " ", "t", "e", "r", "m", " ", "c", "o", "n", "t", "a", "i", "n", "s", " ", "i", "n", "v", "a", "l", "i", "d", " ", "c", "h", "a", "r", "a", "c", "t", "e", "r", "s", ".", " ", "q", "u", "e", "r", "y", "=">>
                                \o ToStr(opArgs.query))
  /\ pc' = "done"
  /\ UNCHANGED <<calls, translatedArgs, searchArgs, backendUrl, otherVars>>

\* products and productSearch: 'to' is above the maximum
RejectTo ==
  /\ pc = "start"
  /\ op \in {"products", "productSearch"}
  /\ ~InvalidQueryTerm(opArgs.query)
  /\ ToTooLarge(opArgs)
  /\ outcome' = UserInputError(MaximumToMessage)
  /\ pc' = "done"
  /\ UNCHANGED <<calls, translatedArgs, searchArgs, backendUrl, otherVars>>

\* products: the checks passed, search.products(opArgs) requests the backend
ProductsSearch ==
  /\ pc = "start"
  /\ op = "products"
  /\ ~InvalidQueryTerm(opArgs.query)
  /\ ~ToTooLarge(opArgs)
  /\ searchArgs' = opArgs
  /\ backendUrl' = productSearchUrl(opArgs, segment)
  /\ calls' = Append(calls, "search.products")
  /\ pc' = "awaitingSearch"
  /\ UNCHANGED <<translatedArgs, outcome, otherVars>>

\* productSearch: the checks passed, translateToStoreDefaultLanguage(opArgs.query || '')
\* asks the translation service, or returns the term when the locales agree
ProductSearchTranslate ==
  /\ pc = "start"
  /\ op = "productSearch"
  /\ ~InvalidQueryTerm(opArgs.query)
  /\ ~ToTooLarge(opArgs)
  /\ IF NeedsTranslation(locale)
     THEN /\ calls' = Append(calls, "messagesGraphQL.translateV2")
          /\ pc' = "awaitingTranslation"
          /\ UNCHANGED translatedArgs
     ELSE /\ translatedArgs' = [opArgs EXCEPT !.query = SearchTerm(opArgs)]
          /\ pc' = "translated"
          /\ UNCHANGED calls
  /\ UNCHANGED <<searchArgs, backendUrl, outcome, otherVars>>

\* searchMetadata: the check passed, translateToStoreDefaultLanguage(args.query || '')
MetadataTranslate ==
  /\ pc = "start"
  /\ op = "searchMetadata"
  /\ ~InvalidQueryTerm(opArgs.query)
  /\ IF NeedsTranslation(locale)
     THEN /\ calls' = Append(calls, "messagesGraphQL.translateV2")
          /\ pc' = "awaitingTranslation"
          /\ UNCHANGED translatedArgs
     ELSE /\ translatedArgs' = [opArgs EXCEPT !.query = SearchTerm(opArgs)]
          /\ pc' = "translated"
          /\ UNCHANGED calls
  /\ UNCHANGED <<searchArgs, backendUrl, outcome, otherVars>>

\* facets: translateToStoreDefaultLanguage(query!), with no check before it
FacetsTranslate ==
  /\ pc = "start"
  /\ op = "facets"
  /\ IF NeedsTranslation(locale)
     THEN /\ calls' = Append(calls, "messagesGraphQL.translateV2")
          /\ pc' = "awaitingTranslation"
          /\ UNCHANGED translatedArgs
     ELSE /\ translatedArgs' = opArgs
          /\ pc' = "translated"
          /\ UNCHANGED calls
  /\ UNCHANGED <<searchArgs, backendUrl, outcome, otherVars>>

\* productSearch and searchMetadata: the translation service answers
TranslationResponds ==
  /\ pc = "awaitingTranslation"
  /\ op \in {"productSearch", "searchMetadata"}
  /\ \E term \in Translations(SearchTerm(opArgs).v) :
       translatedArgs' = [opArgs EXCEPT !.query = Str(term)]
  /\ pc' = "translated"
  /\ UNCHANGED <<calls, searchArgs, backendUrl, outcome, otherVars>>

\* facets: the translation service answers
FacetsTranslationResponds ==
  /\ pc = "awaitingTranslation"
  /\ op = "facets"
  /\ \E translatedQuery \in FacetsTranslations(opArgs.query) :
       translatedArgs' = [opArgs EXCEPT !.query = translatedQuery]
  /\ pc' = "translated"
  /\ UNCHANGED <<calls, searchArgs, backendUrl, outcome, otherVars>>

\* productSearch: a legacy query goes to search.products as it is, and to
\* getSearchMetaData when the request selects a metadata field; any other is first
\* given to toCompatibilityArgs
ClassifyTranslated ==
  /\ pc = "translated"
  /\ op = "productSearch"
  /\ IF Truthy(isLegacySearchFormat(translatedArgs.query.v, translatedArgs,
                                    Split(translatedArgs.query.v, SLASH)))
     THEN /\ searchArgs' = translatedArgs
          /\ backendUrl' = productSearchUrl(translatedArgs, segment)
          /\ calls' = calls \o ProductsAndMetadataCalls(info)
          /\ pc' = "awaitingSearch"
     ELSE /\ calls' = Append(calls, "toCompatibilityArgs")
          /\ pc' = "awaitingCompatibility"
          /\ UNCHANGED <<searchArgs, backendUrl>>
  /\ UNCHANGED <<translatedArgs, outcome, otherVars>>

\* facets: translatedQuery.split('/') throws when the translated query is no string;
\* a legacy query keeps the arguments as they came, any other is given to
\* toCompatibilityArgs with the translated query
FacetsClassify ==
  /\ pc = "translated"
  /\ op = "facets"
  /\ IF translatedArgs.query.t # "string"
     THEN /\ outcome' = TypeError
          /\ pc' = "done"
          /\ UNCHANGED <<calls, compatibilityArgs>>
     ELSE IF Truthy(isLegacySearchFormat(translatedArgs.query.v, opArgs,
                                         Split(translatedArgs.query.v, SLASH)))
     THEN /\ compatibilityArgs' = opArgs
          /\ pc' = "resolved"
          /\ UNCHANGED <<calls, outcome>>
     ELSE /\ calls' = Append(calls, "toCompatibilityArgs")
          /\ pc' = "awaitingCompatibility"
          /\ UNCHANGED <<compatibilityArgs, outcome>>
  /\ UNCHANGED <<translatedArgs, searchArgs, backendUrl, facetsQuery, requestVars>>

\* searchMetadata: toCompatibilityArgs is given the translated query and the map
MetadataResolve ==
  /\ pc = "translated"
  /\ op = "searchMetadata"
  /\ calls' = Append(calls, "toCompatibilityArgs")
  /\ pc' = "awaitingCompatibility"
  /\ UNCHANGED <<translatedArgs, searchArgs, backendUrl, outcome, otherVars>>

\* toCompatibilityArgs answers, search.products(compatibilityArgs, true) requests
\* the backend, and getSearchMetaData is called when a metadata field is selected
CompatibilityResponds ==
  /\ pc = "awaitingCompatibility"
  /\ op = "productSearch"
  /\ \E resolvedArgs \in CompatibilityResults(translatedArgs) :
       /\ searchArgs' = resolvedArgs
       /\ backendUrl' = productSearchUrl(resolvedArgs, segment)
  /\ calls' = calls \o ProductsAndMetadataCalls(info)
  /\ pc' = "awaitingSearch"
  /\ UNCHANGED <<translatedArgs, outcome, otherVars>>

\* facets: toCompatibilityArgs answers
FacetsCompatibilityResponds ==
  /\ pc = "awaitingCompatibility"
  /\ op = "facets"
  /\ compatibilityArgs' \in
       FacetsCompatibilityResults([query |-> translatedArgs.query, map |-> opArgs.map])
  /\ pc' = "resolved"
  /\ UNCHANGED <<calls, translatedArgs, searchArgs, backendUrl, facetsQuery, outcome,
                 requestVars>>

\* searchMetadata: toCompatibilityArgs answers, getSearchMetaData is given its result
MetadataCompatibilityResponds ==
  /\ pc = "awaitingCompatibility"
  /\ op = "searchMetadata"
  /\ searchArgs' \in
       CompatibilityResults([query |-> translatedArgs.query, map |-> translatedArgs.map])
  /\ calls' = Append(calls, "getSearchMetaData")
  /\ pc' = "awaitingSearch"
  /\ UNCHANGED <<translatedArgs, backendUrl, outcome, otherVars>>

\* facets: the chosen pair lacks a query or a map
FacetsReject ==
  /\ pc = "resolved"
  /\ hasFacetsBadArgs(compatibilityArgs)
  /\ outcome' = UserInputError(NoQueryOrMapMessage)
  /\ pc' = "done"
  /\ UNCHANGED <<calls, translatedArgs, searchArgs, backendUrl, otherVars>>

\* facets: search.facets is given the filtered query and map
FacetsSearch ==
  /\ pc = "resolved"
  /\ ~hasFacetsBadArgs(compatibilityArgs)
  /\ facetsQuery' = FacetsString(FilteredArgs(opArgs, compatibilityArgs), opArgs, segment)
  /\ calls' = Append(calls, "search.facets")
  /\ pc' = "awaitingSearch"
  /\ UNCHANGED <<translatedArgs, searchArgs, backendUrl, compatibilityArgs, outcome,
                 requestVars>>

\* products, facets and searchMetadata: the backend answers and the operation returns
SearchResponds ==
  /\ pc = "awaitingSearch"
  /\ op # "productSearch"
  /\ outcome' = Returned
  /\ pc' = "done"
  /\ UNCHANGED <<calls, translatedArgs, searchArgs, backendUrl, otherVars>>

\* productSearch: the awaited calls answer, searchStats.count(ctx, args) is called
\* when the status of the products is 200, and the operation returns
ProductSearchResponds ==
  /\ pc = "awaitingSearch"
  /\ op = "productSearch"
  /\ \E status \in Statuses :
       calls' = IF status = 200 THEN Append(calls, "searchStats.count") ELSE calls
  /\ outcome' = Returned
  /\ pc' = "done"
  /\ UNCHANGED <<translatedArgs, searchArgs, backendUrl, otherVars>>

\* an awaited call to an external service fails: the error propagates to the caller
ExternalCallFails ==
  /\ pc \in {"awaitingTranslation", "awaitingCompatibility", "awaitingSearch"}
  /\ outcome' = TransportError
  /\ pc' = "done"
  /\ UNCHANGED <<calls, translatedArgs, searchArgs, backendUrl, otherVars>>

Next ==
  \/ RejectQuery
  \/ RejectTo
  \/ ProductsSearch
  \/ ProductSearchTranslate
  \/ MetadataTranslate
  \/ FacetsTranslate
  \/ TranslationResponds
  \/ FacetsTranslationResponds
  \/ ClassifyTranslated
  \/ FacetsClassify
  \/ MetadataResolve
  \/ CompatibilityResponds
  \/ FacetsCompatibilityResponds
  \/ MetadataCompatibilityResponds
  \/ FacetsReject
  \/ FacetsSearch
  \/ SearchResponds
  \/ ProductSearchResponds
  \/ ExternalCallFails

Spec == Init /\ [][Next]_vars

(***************************************************************************)
(* Properties of the Facet Segment Filter                                  *)
(***************************************************************************)
QueryABCD == <<"a", "/", "b", "/", "c", "/", "d">>
MapXCYFt == <<"x", ",", "c", ",", "y", ",", "f", "t">>

\* the (segment, tag) pairs of a query/map
PairsOf(a) == Zip(Split(a.query, SLASH), Split(a.map, COMMA))

SameCounts(a) == Len(Split(a.query, SLASH)) = Len(Split(a.map, COMMA))

\* the positions of the input the contract keeps: the first, and the c and ft ones
KeptPositions(a) ==
  {1} \cup {i \in 2..Len(PairsOf(a)) : Split(a.map, COMMA)[i] \in {TagC, TagFt}}

\* the j-th smallest element of the set of positions K
NthOf(K, j) == CHOOSE i \in K : Cardinality({k \in K : k < i}) = j - 1

\* the tags after the first are all c or ft
OnlyStableTags(a) ==
  \A i \in 2..Len(Split(a.map, COMMA)) : Split(a.map, COMMA)[i] \in {TagC, TagFt}

\* C1: for a query and map with as many segments as tags, the result holds exactly
\* the pairs at the kept positions (the first, whatever its tag, and every later one
\* whose tag is c or ft), in their original order, and the other fields unchanged.
C1_FilterKeepsAnchorAndStablePairs ==
  (pc # "start" /\ SameCounts(fArgs)) =>
    /\ SameCounts(fOnce)
    /\ Len(PairsOf(fOnce)) = Cardinality(KeptPositions(fArgs))
    /\ \A j \in 1..Len(PairsOf(fOnce)) :
         PairsOf(fOnce)[j] = PairsOf(fArgs)[NthOf(KeptPositions(fArgs), j)]
    /\ fOnce.behavior = fArgs.behavior
    /\ fOnce.hideUnavailableItems = fArgs.hideUnavailableItems
    /\ DOMAIN fOnce = DOMAIN fArgs

\* a/b/c/d with x,c,y,ft has been filtered to a/b/d with x,c,ft
C1_Witness ==
  /\ pc = "once"
  /\ fArgs.query = QueryABCD /\ fArgs.map = MapXCYFt
  /\ fOnce.query = <<"a", "/", "b", "/", "d">>
  /\ fOnce.map = <<"x", ",", "c", ",", "f", "t">>

\* C9 as stated: the filter applied to its own result returns it unchanged, and an
\* input whose tags after the first are all c or ft is returned with query and map
\* unchanged, whatever the numbers of segments and tags.
C9_Original ==
  /\ pc = "twice" => (fTwice.query = fOnce.query /\ fTwice.map = fOnce.map)
  /\ (pc # "start" /\ OnlyStableTags(fArgs)) =>
       (fOnce.query = fArgs.query /\ fOnce.map = fArgs.map)

\* C9, amended: the filter applied to its own result returns it unchanged, for every
\* input; an input with as many segments as tags whose tags after the first are all
\* c or ft is returned with query and map unchanged.
C9_IdempotentOnEqualCounts ==
  /\ pc = "twice" => (fTwice.query = fOnce.query /\ fTwice.map = fOnce.map)
  /\ (pc # "start" /\ OnlyStableTags(fArgs) /\ SameCounts(fArgs)) =>
       (fOnce.query = fArgs.query /\ fOnce.map = fArgs.map)

\* the filter has dropped a pair, and its second application changed nothing
C9_Witness ==
  /\ pc = "twice"
  /\ SameCounts(fArgs)
  /\ fOnce.query # fArgs.query
  /\ fTwice = fOnce
  /\ Len(PairsOf(fOnce)) >= 2

(***************************************************************************)
(* Properties of the Request URL Composer                                  *)
(***************************************************************************)
\* the text occurs in s and is followed by the end of s or by the next clause
HasClause(s, text) ==
  \E i \in 1..(Len(s) + 1) :
    /\ OccursAt(s, text, i)
    /\ (i + Len(text) > Len(s) \/ s[i + Len(text)] = "&")

\* the number of places of s at which sub occurs
Occurrences(s, sub) == Cardinality({i \in 1..(Len(s) + 1) : OccursAt(s, sub, i)})

\* what follows the first "?" of the URL
AfterQuestionMark(s) ==
  LET q == CHOOSE i \in 1..Len(s) : s[i] = "?" /\ \A k \in 1..(i - 1) : s[k] # "?"
  IN  SubSeq(s, q + 1, Len(s))

\* the place in the composition order of a clause, read off its text after "&"
ClauseKind(c) ==
  CASE StartsWith(c, <<"f", "q", "=", "C", ":", "/">>) -> 1
    [] StartsWith(c, <<"f", "q", "=", "P", ":", "[">>) -> 3
    [] StartsWith(c, <<"f", "q", "=", "p", "r", "o", "d", "u", "c", "t", "C", "l", "u", "s", "t", "e", "r", "I", "d", "s", ":">>) -> 4
    [] StartsWith(c, <<"f", "q", "=", "i", "s", "A", "v", "a", "i", "l", "a", "b", "l", "e", "P", "e", "r", "S", "a", "l", "e", "s", "C", "h", "a", "n", "n", "e", "l", "_">>) -> 5
    [] StartsWith(c, <<"f", "q", "=">>) -> 2
    [] StartsWith(c, <<"O", "=">>) -> 6
    [] StartsWith(c, <<"m", "a", "p", "=">>) -> 7
    [] StartsWith(c, <<"_", "f", "r", "o", "m", "=">>) -> 8
    [] StartsWith(c, <<"_", "t", "o", "=">>) -> 9
    [] c = <<"s", "i", "m", "u", "l", "a", "t", "i", "o", "n", "=", "f", "a", "l", "s", "e">> -> 10
    [] OTHER -> 0

Given(x) == Truthy(x)
QueryEmpty(a) == ~Truthy(a.query)
FilterCount(a) ==
  IF Truthy(a.specificationFilters) THEN Len(a.specificationFilters.v) ELSE 0

\* the channel the contract resolves: the session's when hideUnavailableItems is
\* set (none without segment data), the explicit argument otherwise
ContractChannel(a, seg) ==
  IF Truthy(a.hideUnavailableItems)
  THEN (IF seg = Undefined THEN <<>> ELSE ToStr(seg.channel))
  ELSE (IF a.salesChannel = Undefined THEN <<>> ELSE a.salesChannel.v)

\* the bounds productSearchUrl works with: 0 and 9 stand for an undefined argument
EffectiveFrom(a) == IF a.from = Undefined THEN Num(0) ELSE a.from
EffectiveTo(a) == IF a.to = Undefined THEN Num(9) ELSE a.to
InWindow(b) == b.t = "number" /\ b.v > -1

\* the kinds of the clauses whose guards hold, in the composition order
ExpectedKinds(a, seg) ==
  (IF Given(a.category) /\ QueryEmpty(a) THEN <<1>> ELSE <<>>)
    \o [i \in 1..FilterCount(a) |-> 2]
    \o (IF Given(a.priceRange) THEN <<3>> ELSE <<>>)
    \o (IF Given(a.collection) THEN <<4>> ELSE <<>>)
    \o (IF ContractChannel(a, seg) # <<>> THEN <<5>> ELSE <<>>)
    \o (IF Given(a.orderBy) THEN <<6>> ELSE <<>>)
    \o (IF Given(a.map) THEN <<7>> ELSE <<>>)
    \o (IF InWindow(EffectiveFrom(a)) THEN <<8>> ELSE <<>>)
    \o (IF InWindow(EffectiveTo(a)) THEN <<9>> ELSE <<>>)
    \o (IF a.simulationBehavior = SimulationSkip THEN <<10>> ELSE <<>>)

\* the "&fq={filter}" clauses of the list, one after the other
FilterClauses(a) ==
  Concat([i \in 1..FilterCount(a) |-> <<"&", "f", "q", "=">> \o a.specificationFilters.v[i].v])

\* C2: for a list of n >= 1 specification filters the URL holds the n clauses
\* "&fq={filter}" in list order, each verbatim, with nothing between them and
\* nothing after them but the next clause.
C2_FilterClausesVerbatim ==
  (pc = "built" /\ FilterCount(sArgs) >= 1) => HasClause(url, FilterClauses(sArgs))

\* C3: the URL holds the category clause "&fq=C:/{category}/" if and only if category
\* is non-empty and query is empty; with a non-empty query it holds none.
C3_CategoryClauseIffNoQuery ==
  pc = "built" =>
    /\ (Given(sArgs.category) /\ QueryEmpty(sArgs)) =>
         /\ Includes(url, <<"&", "f", "q", "=", "C", ":", "/">> \o sArgs.category.v \o <<"/">>)
         /\ Occurrences(url, <<"&", "f", "q", "=", "C", ":", "/">>) = 1
    /\ ~(Given(sArgs.category) /\ QueryEmpty(sArgs)) => ~Includes(url, <<"f", "q", "=", "C", ":">>)

\* a category and an empty query have given the clause
C3_Witness ==
  /\ pc = "built"
  /\ sArgs.category = Str(Shoes) /\ sArgs.query = Str(<<>>)
  /\ Includes(url, <<"&", "f", "q", "=", "C", ":", "/", "s", "h", "o", "e", "s", "/">>)

\* a category and a query: the clause is absent
C3_WitnessAbsent ==
  /\ pc = "built"
  /\ sArgs.category = Str(Shoes) /\ sArgs.query = Str(Shoes)
  /\ ~Includes(url, <<"&", "f", "q", "=", "C", ":", "/", "s", "h", "o", "e", "s", "/">>)

\* C4: the URL is the base path, ending in "?", followed by the clauses whose guards
\* hold, in the order category, specification filters, price range, collection,
\* sales channel, orderBy, map, _from, _to, simulation; each guard decides alone, and
\* every clause starts with "&", the first one after the "?" included.
C4_FixedClauseOrder ==
  pc = "built" =>
    LET rest == AfterQuestionMark(url)
        pieces == Split(rest, "&")
    IN  /\ StartsWith(url, <<"/", "p", "u", "b", "/", "p", "r", "o", "d", "u", "c", "t", "s", "/", "s", "e", "a", "r", "c", "h", "/">>)
        /\ Occurrences(url, <<"?">>) = 1
        /\ rest # <<>> => Head(rest) = "&"
        /\ [i \in 1..(Len(pieces) - 1) |-> ClauseKind(pieces[i + 1])]
             = ExpectedKinds(sArgs, segment)

\* query shoes, from 0, to 9 and nothing else: the URL ends with shoes?&_from=0&_to=9
C4_Witness ==
  /\ pc = "built"
  /\ sArgs.query = Str(Shoes) /\ sArgs.from = Num(0) /\ sArgs.to = Num(9)
  /\ ExpectedKinds(sArgs, segment) = <<8, 9>>
  /\ url = <<"/", "p", "u", "b", "/", "p", "r", "o", "d", "u", "c", "t", "s", "/", "s", "e", "a", "r", "c", "h", "/", "s", "h", "o", "e", "s", "?", "&", "_", "f", "r", "o", "m", "=", "0", "&", "_", "t", "o", "=", "9">>

\* every guard holds at once
C4_WitnessAll ==
  /\ pc = "built"
  /\ ExpectedKinds(sArgs, segment) = <<1, 2, 2, 3, 4, 5, 6, 7, 8, 9, 10>>

\* C5: the channel of the clause "&fq=isAvailablePerSalesChannel_{salesChannel}:1" is
\* the explicit argument when hideUnavailableItems is not set and the session's
\* channel when it is set; the clause is there if and only if that channel is
\* non-empty.
C5_SalesChannelResolution ==
  pc = "built" =>
    LET channel == ContractChannel(sArgs, segment)
    IN  /\ channel # <<>> =>
             /\ HasClause(url, <<"&", "f", "q", "=", "i", "s", "A", "v", "a", "i", "l", "a", "b", "l", "e", "P", "e", "r", "S", "a", "l", "e", "s", "C", "h", "a", "n", "n", "e", "l", "_">> \o channel \o <<":", "1">>)
             /\ Occurrences(url, <<"i", "s", "A", "v", "a", "i", "l", "a", "b", "l", "e", "P", "e", "r", "S", "a", "l", "e", "s", "C", "h", "a", "n", "n", "e", "l", "_">>) = 1
        /\ channel = <<>> => ~Includes(url, <<"i", "s", "A", "v", "a", "i", "l", "a", "b", "l", "e", "P", "e", "r", "S", "a", "l", "e", "s", "C", "h", "a", "n", "n", "e", "l", "_">>)

\* hideUnavailableItems set, no segment data, an explicit salesChannel: no clause
C5_Witness ==
  /\ pc = "built"
  /\ sArgs.hideUnavailableItems = Bool(TRUE)
  /\ segment = Undefined
  /\ sArgs.salesChannel = Str(<<"1">>)
  /\ ~Includes(url, <<"i", "s", "A", "v", "a", "i", "l", "a", "b", "l", "e", "P", "e", "r", "S", "a", "l", "e", "s", "C", "h", "a", "n", "n", "e", "l", "_">>)

\* hideUnavailableItems set: the session's channel has replaced the explicit one
C5_WitnessOverride ==
  /\ pc = "built"
  /\ sArgs.hideUnavailableItems = Bool(TRUE)
  /\ segment = Obj(Str(<<"2">>))
  /\ sArgs.salesChannel = Str(<<"1">>)
  /\ Includes(url, <<"&", "f", "q", "=", "i", "s", "A", "v", "a", "i", "l", "a", "b", "l", "e", "P", "e", "r", "S", "a", "l", "e", "s", "C", "h", "a", "n", "n", "e", "l", "_", "2", ":", "1">>)

\* C6 as stated: "&_from={from}" is appended exactly when the caller's from is a
\* number greater than -1 and "&_to={to}" exactly when the caller's to is one; a
\* bound the caller does not supply produces no clause.
C6_Original ==
  pc = "built" =>
    /\ Includes(url, <<"&", "_", "f", "r", "o", "m", "=">>) <=> InWindow(sArgs.from)
    /\ Includes(url, <<"&", "_", "t", "o", "=">>) <=> InWindow(sArgs.to)

\* C6, amended: an undefined from stands for 0 and an undefined to for 9; the clause
\* "&_from={from}" is appended exactly when from, so read, is a number greater than
\* -1, and "&_to={to}" likewise, each whatever the other bound is. Only null or a
\* number of -1 or less produces no clause.
C6_WindowClausesAfterDefaults ==
  pc = "built" =>
    /\ InWindow(EffectiveFrom(sArgs)) =>
         HasClause(url, <<"&", "_", "f", "r", "o", "m", "=">> \o NumberToString(EffectiveFrom(sArgs).v))
    /\ ~InWindow(EffectiveFrom(sArgs)) => ~Includes(url, <<"_", "f", "r", "o", "m", "=">>)
    /\ InWindow(EffectiveTo(sArgs)) =>
         HasClause(url, <<"&", "_", "t", "o", "=">> \o NumberToString(EffectiveTo(sArgs).v))
    /\ ~InWindow(EffectiveTo(sArgs)) => ~Includes(url, <<"_", "t", "o", "=">>)

\* from is not supplied and to is null: the URL holds &_from=0 and no _to clause
C6_Witness ==
  /\ pc = "built"
  /\ sArgs.from = Undefined /\ sArgs.to = Null
  /\ HasClause(url, <<"&", "_", "f", "r", "o", "m", "=", "0">>)
  /\ ~Includes(url, <<"_", "t", "o", "=">>)

(***************************************************************************)
(* Properties of the Query Format Classifier                               *)
(***************************************************************************)
\* map is a string with as many tags as the query has segments
SameCardinality(a) ==
  /\ a.map.t = "string"
  /\ Len(Split(a.map.v, COMMA)) = Len(Split(a.query, SLASH))

\* C8 as stated: the classifier returns true for every query and map with as many
\* tags as segments, the empty map with a one-segment query included, and for every
\* query holding "specificationFilter" whatever the map.
C8_Original ==
  pc = "classified" =>
    /\ SameCardinality(lArgs) => isLegacy = Bool(TRUE)
    /\ Includes(lArgs.query, SPEC_FILTER) => isLegacy = Bool(TRUE)

\* C8, amended: the classifier returns true for every query and non-empty map with
\* as many tags as segments, and for every query holding "specificationFilter"
\* whatever the map; for an empty map and a query without the marker it returns the
\* empty map, which is falsy, even when the query has a single segment.
C8_LegacyOnNonEmptyMap ==
  pc = "classified" =>
    /\ (SameCardinality(lArgs) /\ lArgs.map.v # <<>>) => isLegacy = Bool(TRUE)
    /\ Includes(lArgs.query, SPEC_FILTER) => isLegacy = Bool(TRUE)
    /\ (lArgs.map = Str(<<>>) /\ ~Includes(lArgs.query, SPEC_FILTER)) =>
         (isLegacy = Str(<<>>) /\ ~Truthy(isLegacy))

\* a query with the marker and a map of another cardinality is classified legacy
C8_Witness ==
  /\ pc = "classified"
  /\ Includes(lArgs.query, SPEC_FILTER)
  /\ lArgs.map.t = "string" /\ ~SameCardinality(lArgs)
  /\ isLegacy = Bool(TRUE)

\* the empty map with a one-segment query is not classified legacy
C8_WitnessEmptyMap ==
  /\ pc = "classified"
  /\ lArgs.query = <<"a">> /\ lArgs.map = Str(<<>>)
  /\ ~Truthy(isLegacy)

(***************************************************************************)
(* Properties of the In-flight Deduplication Keyer                         *)
(***************************************************************************)
KeyFields == {"baseURL", "url", "params", "segmentToken"}

\* the components in which two requests differ
Differing(a, b) == {f \in KeyFields : a[f] # b[f]}

HasToken(r) == r.segmentToken.t = "string"

\* C10 as stated: two requests with the same baseURL, url, params and segment token
\* get the same key, and two requests that differ in any of the four never do.
C10_Original ==
  pc = "keyed" => (keyA = keyB <=> reqA = reqB)

\* C10, amended: two requests with the same four components get the same key; two
\* requests that differ only in baseURL, or only in url, or only in the segment
\* token, both carrying one, never get the same key.
C10_KeySeparatesOneComponent ==
  pc = "keyed" =>
    /\ reqA = reqB => keyA = keyB
    /\ Differing(reqA, reqB) = {"baseURL"} => keyA # keyB
    /\ Differing(reqA, reqB) = {"url"} => keyA # keyB
    /\ (Differing(reqA, reqB) = {"segmentToken"} /\ HasToken(reqA) /\ HasToken(reqB))
         => keyA # keyB

\* two requests that differ only in their segment token have different keys
C10_Witness ==
  /\ pc = "keyed"
  /\ Differing(reqA, reqB) = {"segmentToken"}
  /\ HasToken(reqA) /\ HasToken(reqB)
  /\ keyA # keyB

(***************************************************************************)
(* Properties of the operations products and productSearch                 *)
(***************************************************************************)
Rejected == pc = "done" /\ outcome.kind = "UserInputError"

Range(f) == {f[i] : i \in DOMAIN f}

\* the query is a string free of ? & [ ] =
CleanQuery(a) ==
  IF a.query.t # "string" THEN FALSE
  ELSE \A i \in 1..Len(a.query.v) : a.query.v[i] \notin {"?", "&", "[", "]", "="}

ToAbove2500(a) == IF a.to.t = "number" THEN a.to.v > 2500 ELSE FALSE

\* C7: in products and in productSearch, a request with 'to' above 2500, or with a
\* query that is null or holds one of ? & [ ] =, ends in a user-input error with no
\* call made to the translation service, to toCompatibilityArgs or to the search
\* backend; a request with a clean query and 'to' of 2500 or less is not rejected.
C7_RejectedBeforeAnyCall ==
  (op \in {"products", "productSearch"} /\ pc # "start") =>
    /\ (ToAbove2500(opArgs) \/ ~CleanQuery(opArgs)) => (Rejected /\ calls = <<>>)
    /\ (CleanQuery(opArgs) /\ ~ToAbove2500(opArgs)) =>
         /\ ~Rejected
         /\ pc = "done" => calls # <<>>
         /\ (pc = "done" /\ outcome = Returned) => "search.products" \in Range(calls)

\* 'to' of 2501 with a clean query has been rejected, nothing having been called
C7_Witness ==
  /\ op \in {"products", "productSearch"}
  /\ Rejected
  /\ opArgs.to = Num(2501) /\ CleanQuery(opArgs)
  /\ calls = <<>>

\* 'to' of 2500 has passed: productSearch has reached the search backend
C7_WitnessAccepted ==
  /\ pc = "done" /\ op = "productSearch"
  /\ opArgs.to = Num(2500)
  /\ outcome = Returned
  /\ "search.products" \in Range(calls)

(***************************************************************************)
(* facets: what is sent to the backend                                     *)
(***************************************************************************)
\* the pair chosen after classification: the caller's when the query is legacy, the
\* one toCompatibilityArgs returned otherwise
ChosenPair == [query |-> compatibilityArgs.query, map |-> compatibilityArgs.map]

\* the chosen pair through filterSpecificationFilters
ChosenPairFiltered ==
  LET r == filterSpecificationFilters([query |-> ChosenPair.query.v, map |-> ChosenPair.map.v])
  IN  [query |-> Str(r.query), map |-> Str(r.map)]

\* the request string that carries a given query and map
Carrying(pair) ==
  ToStr(pair.query) \o <<"?", "m", "a", "p", "=">> \o ToStr(pair.map)
    \o UnavailableString(opArgs, segment)

ResolverRan == "toCompatibilityArgs" \in Range(calls)

\* C11: the query and map facets sends to the backend are those of the pair chosen
\* after classification (the caller's pair for a legacy query, the pair returned by
\* toCompatibilityArgs otherwise), passed through filterSpecificationFilters when
\* behavior is 'Static' and unchanged when behavior is 'Dynamic' or absent.
C11_FacetsSendsChosenPair ==
  (op = "facets" /\ facetsQuery # Idle) =>
    facetsQuery = IF opArgs.behavior = Str(<<"S", "t", "a", "t", "i", "c">>)
                  THEN Carrying(ChosenPairFiltered)
                  ELSE Carrying(ChosenPair)

(***************************************************************************)
(* The operations that resolve a canonical query                           *)
(***************************************************************************)
ResolverOperations == {"facets", "productSearch", "searchMetadata"}

BackendCalls == {"search.products", "search.facets", "getSearchMetaData"}

\* the translation is over and has given a string
Translated == IF translatedArgs = Idle THEN FALSE ELSE translatedArgs.query.t = "string"

\* what isLegacySearchFormat reports of the translated query and the map
ReportedLegacy ==
  Truthy(isLegacySearchFormat(translatedArgs.query.v, [map |-> opArgs.map],
                              Split(translatedArgs.query.v, SLASH)))

Count(s, x) == Cardinality({i \in DOMAIN s : s[i] = x})

\* every call named by Earlier stands before every call named by Later
Before(Earlier, Later) ==
  \A i, j \in DOMAIN calls : (calls[i] \in Earlier /\ calls[j] \in Later) => i < j

\* C12: in facets, productSearch and searchMetadata, toCompatibilityArgs is never
\* called for a request whose translated query and map isLegacySearchFormat reports
\* as legacy; for a request it reports as not legacy, toCompatibilityArgs is called
\* exactly once, after the translation and before the call to the backend.
C12_ResolverOnlyForCanonical ==
  (op \in ResolverOperations /\ Translated) =>
    IF ReportedLegacy
    THEN ~ResolverRan
    ELSE /\ Count(calls, "toCompatibilityArgs") <= 1
         /\ pc # "translated" => Count(calls, "toCompatibilityArgs") = 1
         /\ Before({"messagesGraphQL.translateV2"}, {"toCompatibilityArgs"})
         /\ Before({"toCompatibilityArgs"}, BackendCalls)

(***************************************************************************)
(* facets: the requests that lack a query or a map                         *)
(***************************************************************************)
\* the caller has given no query or no map
MissingQueryOrMap == opArgs.query = Undefined \/ opArgs.map = Undefined

\* toCompatibilityArgs has answered with an empty or missing query or map
ResolverResultBad ==
  IF ResolverRan /\ compatibilityArgs # Idle THEN hasFacetsBadArgs(compatibilityArgs) ELSE FALSE

\* C13: a facets request with no query or no map, or for which toCompatibilityArgs
\* returns an empty or missing query or map, sends nothing to search.facets and ends
\* in the user-input error 'No query or map provided': it neither returns a result
\* nor fails with an error of the resolver's own code (an error of an external
\* service that has been called may still propagate).
C13_BadArgsRejected ==
  (op = "facets" /\ (MissingQueryOrMap \/ ResolverResultBad)) =>
    /\ "search.facets" \notin Range(calls)
    /\ pc = "done" => outcome \in {UserInputError(NoQueryOrMapMessage), TransportError}

====
